---- MODULE Spec2Model ----
(***************************************************************************)
(* A model of dotcraft (src/main.rs): the manifest-driven orchestrator     *)
(* (sync / link / generate), the symlink engine (symlink_dir_all,          *)
(* symlink_file), the template writer and the hook runner, over a model of *)
(* the file system calls the code makes (std::fs, std::os::unix::fs).      *)
(*                                                                         *)
(* A path is a sequence of component names; <<>> is the root directory.    *)
(* The file system is a function from the paths that hold an entry to a    *)
(* node [k, t, c]: k is "dir", "file" or "link", t the stored target of a  *)
(* link, c the content of a file.                                          *)
(***************************************************************************)
EXTENDS Integers, Sequences, FiniteSets, TLC

\* ------------------------------------------------------------------ bounds
\* Symbolic links followed in one resolution before the kernel gives ELOOP.
MaxFollow == 3
\* Components in a path before the kernel gives ENAMETOOLONG.
MaxPathLen == 5
\* Nested calls of symlink_dir_all before the stack is exhausted.
MaxDepth == 7
\* Invocations of the program in one behaviour.
MaxRuns == 2

\* ------------------------------------------------------------- file system
NoPath == <<"<enoent>">>
None == <<"<none>">>

DirNode == [k |-> "dir", t |-> <<>>, c |-> ""]
FileNode(c) == [k |-> "file", t |-> <<>>, c |-> c]
LinkNode(t) == [k |-> "link", t |-> t, c |-> ""]

Parent(p) == SubSeq(p, 1, Len(p) - 1)
FileName(p) == p[Len(p)]
Join(p, n) == Append(p, n)

\* The kernel's path walk: cur is a resolved directory, rest the components
\* still to resolve; a link is replaced by its (absolute) stored target.
RECURSIVE Resolve(_, _, _, _)
Resolve(f, cur, rest, fuel) ==
    IF rest = <<>> THEN cur
    ELSE LET nxt == Append(cur, Head(rest)) IN
         IF nxt \notin DOMAIN f THEN NoPath
         ELSE IF f[nxt].k = "link"
              THEN IF fuel = 0 THEN NoPath
                   ELSE Resolve(f, <<>>, f[nxt].t \o Tail(rest), fuel - 1)
         ELSE IF f[nxt].k = "dir" THEN Resolve(f, nxt, Tail(rest), fuel)
         ELSE IF Tail(rest) = <<>> THEN nxt ELSE NoPath

\* Path::canonicalize: the resolved path, every link followed; NoPath on error.
Canonicalize(f, p) ==
    IF Len(p) > MaxPathLen THEN NoPath ELSE Resolve(f, <<>>, p, MaxFollow)

\* The kind of the entry at a resolved path
KindAt(f, rp) == IF rp = NoPath \/ rp \notin DOMAIN f THEN "none" ELSE f[rp].k

\* Where the last component of p lives, its parent par resolved (lstat).
LPathIn(f, p, par) ==
    IF KindAt(f, par) # "dir" THEN NoPath ELSE Append(par, FileName(p))
LPath(f, p) ==
    IF p = <<>> THEN <<>>
    ELSE IF Len(p) > MaxPathLen THEN NoPath
    ELSE LPathIn(f, p, Canonicalize(f, Parent(p)))

\* Path::exists, Path::is_dir, Path::is_symlink
Exists(f, p) == Canonicalize(f, p) # NoPath
IsDir(f, p) == KindAt(f, Canonicalize(f, p)) = "dir"
IsSymlink(f, p) == KindAt(f, LPath(f, p)) = "link"

Put(f, p, node) == [q \in (DOMAIN f) \cup {p} |-> IF q = p THEN node ELSE f[q]]
Del(f, p) == [q \in (DOMAIN f) \ {p} |-> f[q]]

\* One mutation of the file system: op is "mkdir", "remove", "symlink" or
\* "write", p the path of the entry created, removed or written.
Op(op, p) == [op |-> op, p |-> p]

\* The result of a file-system call: ok, the file system after it, and the
\* mutations it made.
FsOk(f, ops) == [ok |-> TRUE, fs |-> f, ops |-> ops, kind |-> "ok"]
FsErr(f, kind) == [ok |-> FALSE, fs |-> f, ops |-> <<>>, kind |-> kind]

\* mkdir(2), lp being where the new entry goes
MkdirAt(f, lp) ==
    IF lp = NoPath THEN FsErr(f, "NotFound")
    ELSE IF lp \in DOMAIN f THEN FsErr(f, "AlreadyExists")
    ELSE FsOk(Put(f, lp, DirNode), <<Op("mkdir", lp)>>)
Mkdir(f, p) == MkdirAt(f, LPath(f, p))

\* fs::create_dir_all: mkdir; on NotFound the parent first, then mkdir again;
\* any other failure is a success when the path is a directory already.
RECURSIVE CreateDirAll(_, _)
CreateDirAgain(p, r, m2) ==
    IF m2.ok THEN FsOk(m2.fs, r.ops \o m2.ops)
    ELSE IF IsDir(r.fs, p) THEN r
    ELSE FsErr(r.fs, m2.kind)
CreateDirUnder(p, r) ==
    IF ~r.ok THEN r ELSE CreateDirAgain(p, r, Mkdir(r.fs, p))
CreateDirFirst(f, p, m) ==
    IF m.ok THEN m
    ELSE IF m.kind = "NotFound" /\ p # <<>>
         THEN CreateDirUnder(p, CreateDirAll(f, Parent(p)))
    ELSE IF IsDir(f, p) THEN FsOk(f, <<>>)
    ELSE FsErr(f, m.kind)
CreateDirAll(f, p) == CreateDirFirst(f, p, Mkdir(f, p))

\* fs::remove_file (unlink(2)): a directory is not removed
RemoveAt(f, lp) ==
    IF lp = NoPath \/ lp \notin DOMAIN f THEN FsErr(f, "NotFound")
    ELSE IF f[lp].k = "dir" THEN FsErr(f, "IsADirectory")
    ELSE FsOk(Del(f, lp), <<Op("remove", lp)>>)
RemoveFile(f, p) == RemoveAt(f, LPath(f, p))

\* std::os::unix::fs::symlink (symlink(2)): the target is stored as given
SymlinkAt(f, target, lp) ==
    IF lp = NoPath THEN FsErr(f, "NotFound")
    ELSE IF lp \in DOMAIN f THEN FsErr(f, "AlreadyExists")
    ELSE FsOk(Put(f, lp, LinkNode(target)), <<Op("symlink", lp)>>)
SymlinkUnix(f, target, p) == SymlinkAt(f, target, LPath(f, p))

\* fs::read_dir: the names in directory d (a canonical path)
ReadDir(f, d) ==
    {FileName(q) : q \in {r \in DOMAIN f : Len(r) = Len(d) + 1 /\ Parent(r) = d}}

\* fs::read_to_string
ReadAt(f, rp) ==
    IF KindAt(f, rp) # "file" THEN [ok |-> FALSE, c |-> ""]
    ELSE [ok |-> TRUE, c |-> f[rp].c]
ReadToString(f, p) == ReadAt(f, Canonicalize(f, p))

\* fs::write: open(2) with O_CREAT | O_TRUNC, which follows links (a dangling
\* link included: the file is created where the link points).
RECURSIVE FsWriteVia(_, _, _, _)
WriteAt(f, c, fuel, lp) ==
    IF lp = NoPath THEN FsErr(f, "NotFound")
    ELSE IF lp \notin DOMAIN f THEN FsOk(Put(f, lp, FileNode(c)), <<Op("write", lp)>>)
    ELSE IF f[lp].k = "dir" THEN FsErr(f, "IsADirectory")
    ELSE IF f[lp].k = "file" THEN FsOk(Put(f, lp, FileNode(c)), <<Op("write", lp)>>)
    ELSE IF fuel = 0 THEN FsErr(f, "FilesystemLoop")
    ELSE FsWriteVia(f, f[lp].t, c, fuel - 1)
FsWriteVia(f, p, c, fuel) == WriteAt(f, c, fuel, LPath(f, p))
FsWrite(f, p, c) == FsWriteVia(f, p, c, MaxFollow)

\* ------------------------------------------------------------ symlink engine
\* An event of the run's log: e names it, p is the path (or name) it is
\* about, t the link target where there is one.
Ev(e, p, t) == [e |-> e, p |-> p, t |-> t]

\* The result of a step: ok (Ok(()) or Err), the file system after it, the
\* mutations made and the events logged.
Res(ok, f, ops, evs) == [ok |-> ok, fs |-> f, ops |-> ops, evs |-> evs]

\* resolve_home_dir: HOME is read first, then a leading ~ is replaced
ResolveHomeDir(home, p) ==
    IF home = None THEN [ok |-> FALSE, p |-> NoPath]
    ELSE IF p # <<>> /\ Head(p) = "~" THEN [ok |-> TRUE, p |-> home \o Tail(p)]
    ELSE [ok |-> TRUE, p |-> p]

\* symlink_file, lines 439-450: create the link unless dry, and log it
Linked(f, target, dest, ops, evs, s) ==
    IF s.ok THEN Res(TRUE, s.fs, ops \o s.ops, evs \o <<Ev("linked", dest, target)>>)
    ELSE Res(FALSE, f, ops, evs \o <<Ev("error", dest, target)>>)
\* MakeLink, were the link created in a dry run too
MakeLink_IgnoreDry(f, target, dest, dry, ops, evs) ==
    Linked(f, target, dest, ops, evs, SymlinkUnix(f, target, dest))

MakeLink(f, target, dest, dry, ops, evs) ==
    IF dry THEN Res(TRUE, f, ops, evs \o <<Ev("linked", dest, target)>>)
    ELSE Linked(f, target, dest, ops, evs, SymlinkUnix(f, target, dest))

\* symlink_file, lines 396-399 and 427-430: remove dest unless dry, then link;
\* why is the warning logged before ("removing" or "broken")
Relink(f, target, dest, why, r) ==
    IF r.ok THEN MakeLink(r.fs, target, dest, FALSE, r.ops, <<Ev(why, dest, None)>>)
    ELSE Res(FALSE, f, <<>>, <<Ev(why, dest, None), Ev("error", dest, target)>>)
Replace(f, target, dest, dry, why) ==
    IF dry THEN MakeLink(f, target, dest, TRUE, <<>>, <<Ev(why, dest, None)>>)
    ELSE Relink(f, target, dest, why, RemoveFile(f, dest))

\* Compare, were a link that resolves removed and made again
Compare_Relink(f, target, dest, ct, cd) ==
    IF ct = NoPath \/ cd = NoPath THEN Res(FALSE, f, <<>>, <<Ev("error", dest, target)>>)
    ELSE Relink(f, target, dest, "removing", RemoveFile(f, dest))

\* symlink_file, lines 400-412: dest is a link that resolves; ct and cd are
\* the canonical paths of target and dest
Compare(f, target, dest, ct, cd) ==
    IF ct = NoPath \/ cd = NoPath THEN Res(FALSE, f, <<>>, <<Ev("error", dest, target)>>)
    ELSE IF ct = cd THEN Res(TRUE, f, <<>>, <<Ev("uptodate", dest, target)>>)
    ELSE Res(TRUE, f, <<>>, <<Ev("conflict", dest, cd)>>)

\* symlink_file, lines 431-437: dest does not exist; c is the result of
\* create_dir_all on its parent
LinkFresh(target, dest, c) ==
    IF c.ok THEN MakeLink(c.fs, target, dest, FALSE, c.ops, <<>>)
    ELSE Res(FALSE, c.fs, c.ops, <<Ev("error", Parent(dest), target)>>)

\* symlink_file, were force taken as set whatever its value
SymlinkFile_AlwaysReplace(f, target, dest, force, dry) ==
    IF Exists(f, dest) THEN Replace(f, target, dest, dry, "removing")
    ELSE IF IsSymlink(f, dest) THEN Replace(f, target, dest, dry, "broken")
    ELSE IF dry THEN MakeLink(f, target, dest, TRUE, <<>>, <<>>)
    ELSE IF dest = <<>> THEN Res(FALSE, f, <<>>, <<Ev("error", dest, target)>>)
    ELSE LinkFresh(target, dest, CreateDirAll(f, Parent(dest)))

\* symlink_file, were a dangling link not looked for (no branch 421-430)
SymlinkFile_IgnoreBroken(f, target, dest, force, dry) ==
    IF Exists(f, dest)
    THEN IF force THEN Replace(f, target, dest, dry, "removing")
         ELSE IF IsSymlink(f, dest)
              THEN Compare(f, target, dest, Canonicalize(f, target), Canonicalize(f, dest))
         ELSE Res(TRUE, f, <<>>, <<Ev("conflict", dest, None)>>)
    ELSE IF dry THEN MakeLink(f, target, dest, TRUE, <<>>, <<>>)
    ELSE IF dest = <<>> THEN Res(FALSE, f, <<>>, <<Ev("error", dest, target)>>)
    ELSE LinkFresh(target, dest, CreateDirAll(f, Parent(dest)))

\* symlink_file
SymlinkFile(f, target, dest, force, dry) ==
    IF Exists(f, dest)
    THEN IF force THEN Replace(f, target, dest, dry, "removing")
         ELSE IF IsSymlink(f, dest)
              THEN Compare(f, target, dest, Canonicalize(f, target), Canonicalize(f, dest))
         ELSE Res(TRUE, f, <<>>, <<Ev("conflict", dest, None)>>)
    ELSE IF IsSymlink(f, dest) THEN Replace(f, target, dest, dry, "broken")
    ELSE IF dry THEN MakeLink(f, target, dest, TRUE, <<>>, <<>>)
    ELSE IF dest = <<>> THEN Res(FALSE, f, <<>>, <<Ev("error", dest, target)>>)
    ELSE LinkFresh(target, dest, CreateDirAll(f, Parent(dest)))

\* The order in which read_dir yields the names of a directory is the file
\* system's: the model walks them up or down a fixed list.
NameOrder == <<"f", "g", "e", "k", "l", "m", "up", "t", "u", "v", "a", "b", "c", "p", "q">>
Rank(n) == CHOOSE i \in 1..Len(NameOrder) : NameOrder[i] = n
NextName(todo, ord) ==
    CHOOSE n \in todo : \A m \in todo :
        IF ord = "up" THEN Rank(n) <= Rank(m) ELSE Rank(n) >= Rank(m)

\* symlink_dir_all; o holds home, force, dry, recursive and the read_dir
\* order, depth counts the nested calls (the stack the recursion uses).
RECURSIVE SymlinkDirAll(_, _, _, _, _)
RECURSIVE WalkEntries(_, _, _, _, _, _)

\* symlink_dir_all, lines 358-373: the loop over read_dir(target); todo holds
\* the names not yet visited, acc the result so far, n the name visited now,
\* mk the result of creating the parent of dest/n, r that of the nested call.
WalkOn(o, target, dest, todo, depth, acc, n, mk, r) ==
    IF ~r.ok THEN Res(FALSE, r.fs, acc.ops \o mk.ops \o r.ops, acc.evs \o r.evs)
    ELSE WalkEntries(o, target, dest, todo \ {n}, depth,
                     Res(TRUE, r.fs, acc.ops \o mk.ops \o r.ops, acc.evs \o r.evs))
WalkInto(o, target, dest, todo, depth, acc, n, mk) ==
    IF ~mk.ok
    THEN Res(FALSE, mk.fs, acc.ops \o mk.ops,
             acc.evs \o <<Ev("error", Parent(Join(dest, n)), None)>>)
    ELSE WalkOn(o, target, dest, todo, depth, acc, n, mk,
                SymlinkDirAll(mk.fs, o, Join(target, n), Join(dest, n), depth + 1))
WalkEntry(o, target, dest, todo, depth, acc, n) ==
    WalkInto(o, target, dest, todo, depth, acc, n,
             IF ~Exists(acc.fs, Parent(Join(dest, n))) /\ ~o.dry
             THEN CreateDirAll(acc.fs, Parent(Join(dest, n)))
             ELSE FsOk(acc.fs, <<>>))
WalkEntries(o, target, dest, todo, depth, acc) ==
    IF todo = {} THEN acc
    ELSE WalkEntry(o, target, dest, todo, depth, acc, NextName(todo, o.ord))

\* DirAllOn, were the target handed to symlink_file as the manifest gives it
DirAllOn_RawTarget(f, o, target, dest, depth, t) ==
    IF t = NoPath THEN Res(FALSE, f, <<>>, <<Ev("error", target, None)>>)
    ELSE IF f[t].k = "dir" /\ o.recursive
         THEN WalkEntries(o, t, dest, ReadDir(f, t), depth,
                          Res(TRUE, f, <<>>, <<Ev("enter", dest, t)>>))
    ELSE SymlinkFile(f, target, dest, o.force, o.dry)

\* DirAllOn, were a directory never walked
DirAllOn_NoWalk(f, o, target, dest, depth, t) ==
    IF t = NoPath THEN Res(FALSE, f, <<>>, <<Ev("error", target, None)>>)
    ELSE SymlinkFile(f, t, dest, o.force, o.dry)

\* symlink_dir_all, lines 357-376: t is the canonical target
DirAllOn(f, o, target, dest, depth, t) ==
    IF t = NoPath THEN Res(FALSE, f, <<>>, <<Ev("error", target, None)>>)
    ELSE IF f[t].k = "dir" /\ o.recursive
         THEN WalkEntries(o, t, dest, ReadDir(f, t), depth,
                          Res(TRUE, f, <<>>, <<Ev("enter", dest, t)>>))
    ELSE SymlinkFile(f, t, dest, o.force, o.dry)
\* symlink_dir_all, lines 352-355: ht and hd are target and dest, ~ resolved
DirAllAt(f, o, target, depth, ht, hd) ==
    IF ~ht.ok \/ ~hd.ok THEN Res(FALSE, f, <<>>, <<Ev("error", target, None)>>)
    ELSE DirAllOn(f, o, target, hd.p, depth, Canonicalize(f, ht.p))
SymlinkDirAll(f, o, target, dest, depth) ==
    IF depth > MaxDepth THEN Res(FALSE, f, <<>>, <<Ev("overflow", dest, target)>>)
    ELSE DirAllAt(f, o, target, depth,
                  ResolveHomeDir(o.home, target), ResolveHomeDir(o.home, dest))

\* ------------------------------------------------------- templates, context
\* The template sources of the model and what upon's compile and render make
\* of them: text without tags renders to itself, {{ k }} to the value of k.
TemplateSyntaxOk(data) == data # "{{"
TemplateKey(data) ==
    CASE data = "{{theme}}" -> "theme"
      [] data = "{{primary}}" -> "primary"
      [] data = "{{nokey}}" -> "nokey"
      [] OTHER -> ""
Render(data, ctx) ==
    IF ~TemplateSyntaxOk(data) THEN [ok |-> FALSE, text |-> ""]
    ELSE IF TemplateKey(data) = "" THEN [ok |-> TRUE, text |-> data]
    ELSE IF TemplateKey(data) \in DOMAIN ctx
         THEN [ok |-> TRUE, text |-> ctx[TemplateKey(data)]]
         ELSE [ok |-> FALSE, text |-> ""]

\* has_templates
HasTemplates(m) ==
    \E n \in DOMAIN m.entries : \E i \in 1..Len(m.entries[n]) :
        m.entries[n][i].template # None

Variants == {"monochrome", "neutral", "tonal_spot", "vibrant", "expressive",
             "fidelity", "content", "rainbow", "fruit_salad"}
Themes == {"dark", "light"}
Overlay(ctx, more) ==
    [k \in (DOMAIN ctx) \cup (DOMAIN more) |-> IF k \in DOMAIN more THEN more[k] ELSE ctx[k]]

\* colors::generate_material_colors: the keys it inserts, in its order
GenerateMaterialColors(f, wp, theme, variant, ctx) ==
    IF f[wp].k # "file" \/ f[wp].c # "IMG" THEN [ok |-> FALSE, ctx |-> ctx]
    ELSE IF variant \notin Variants THEN [ok |-> FALSE, ctx |-> ctx]
    ELSE IF theme \notin Themes
         THEN [ok |-> FALSE, ctx |-> Overlay(ctx, "source_color" :> "seed")]
    ELSE [ok |-> TRUE,
          ctx |-> Overlay(ctx, ("source_color" :> "seed") @@ ("primary" :> "role")
                               @@ ("red" :> "ansi") @@ ("theme" :> theme))]

\* WithVariables, were the user's variables inserted first
WithVariables_PaletteWins(m, g) ==
    IF g.ok THEN [ok |-> TRUE, ctx |-> Overlay(m.variables, g.ctx)] ELSE g

\* init_template_context, lines 81-86: the user's variables are inserted last
WithVariables(m, g) ==
    IF g.ok THEN [ok |-> TRUE, ctx |-> Overlay(g.ctx, m.variables)] ELSE g
\* init_template_context, lines 60-72: wp is the canonical wallpaper path
ContextAt(f, m, ctx, wp) ==
    IF wp = NoPath THEN [ok |-> FALSE, ctx |-> ctx]
    ELSE WithVariables(m, GenerateMaterialColors(f, wp, m.theme, m.variant,
                              Overlay(ctx, "wallpaper" :> "wallpaper-path")))
ContextFrom(f, m, ctx, hw) ==
    IF ~hw.ok THEN [ok |-> FALSE, ctx |-> ctx]
    ELSE ContextAt(f, m, ctx, Canonicalize(f, hw.p))
\* init_template_context, were an unset wallpaper never an error
InitTemplateContext_NoWallpaperOk(f, home, m, ctx) ==
    IF m.wallpaper # None THEN ContextFrom(f, m, ctx, ResolveHomeDir(home, m.wallpaper))
    ELSE [ok |-> TRUE, ctx |-> Overlay(ctx, m.variables)]

\* init_template_context
InitTemplateContext(f, home, m, ctx) ==
    IF m.wallpaper # None THEN ContextFrom(f, m, ctx, ResolveHomeDir(home, m.wallpaper))
    ELSE IF HasTemplates(m) THEN [ok |-> FALSE, ctx |-> ctx]
    ELSE [ok |-> TRUE, ctx |-> Overlay(ctx, m.variables)]

\* generate_template, lines 479-488: mk is the result of creating the parent
\* of dest, w that of the write
GenDone(dest, t, mk, w) ==
    IF ~w.ok THEN Res(FALSE, mk.fs, mk.ops, <<Ev("error", dest, t)>>)
    ELSE Res(TRUE, w.fs, mk.ops \o w.ops, <<Ev("generated", dest, t)>>)
GenWrite(dest, t, out, mk) ==
    IF ~mk.ok THEN Res(FALSE, mk.fs, mk.ops, <<Ev("error", dest, t)>>)
    ELSE GenDone(dest, t, mk, FsWrite(mk.fs, dest, out.text))
\* GenOut, were the parent directory of dest not created
GenOut_NoParents(f, dest, t, dry, out) ==
    IF ~out.ok \/ dest = <<>> THEN Res(FALSE, f, <<>>, <<Ev("error", dest, t)>>)
    ELSE IF dry THEN Res(TRUE, f, <<>>, <<Ev("generated", dest, t)>>)
    ELSE GenWrite(dest, t, out, FsOk(f, <<>>))

\* generate_template, lines 468-478: out is the rendered text
GenOut(f, dest, t, dry, out) ==
    IF ~out.ok \/ dest = <<>> THEN Res(FALSE, f, <<>>, <<Ev("error", dest, t)>>)
    ELSE IF dry THEN Res(TRUE, f, <<>>, <<Ev("generated", dest, t)>>)
    ELSE GenWrite(dest, t, out,
                  IF ~Exists(f, Parent(dest)) THEN CreateDirAll(f, Parent(dest))
                  ELSE FsOk(f, <<>>))
\* generate_template, lines 465-466: data is the template's text
GenRender(f, dest, t, ctx, dry, data) ==
    IF ~data.ok THEN Res(FALSE, f, <<>>, <<Ev("error", dest, t)>>)
    ELSE GenOut(f, dest, t, dry, Render(data.c, ctx))
\* generate_template, lines 460-463: t is the canonical template path
GenRead(f, dest, template, ctx, dry, t) ==
    IF t = NoPath THEN Res(FALSE, f, <<>>, <<Ev("error", dest, template)>>)
    ELSE GenRender(f, dest, t, ctx, dry, ReadAt(f, t))
GenFrom(f, dest, template, ctx, dry, ht, hd) ==
    IF ~ht.ok \/ ~hd.ok THEN Res(FALSE, f, <<>>, <<Ev("error", dest, template)>>)
    ELSE GenRead(f, hd.p, template, ctx, dry, Canonicalize(f, ht.p))
\* generate_template
GenerateTemplate(f, home, dest, template, ctx, dry) ==
    GenFrom(f, dest, template, ctx, dry,
            ResolveHomeDir(home, template), ResolveHomeDir(home, dest))

\* ------------------------------------------------------------------- hooks
\* The hook command lines of the model: split_whitespace gives no word for
\* "" and " "; "nosuch" names no program; "false" runs and exits with 1.
HookProgram(cmd) == IF cmd \in {"", " "} THEN "" ELSE cmd
Launchable == {"true", "false"}

\* The exit status of the programs of the model
ExitStatus(cmd) == IF HookProgram(cmd) = "false" THEN 1 ELSE 0

\* execute_hook, were a hook that exits with a status other than 0 an error
ExecuteHook_CheckStatus(cmd) ==
    HookProgram(cmd) # "" /\ HookProgram(cmd) \in Launchable /\ ExitStatus(cmd) = 0

\* execute_hook, were a failure to launch ignored
ExecuteHook_AlwaysOk(cmd) == TRUE

\* execute_hook: Err when there is no program or it cannot be launched; the
\* exit status is not looked at.
ExecuteHook(cmd) == HookProgram(cmd) # "" /\ HookProgram(cmd) \in Launchable

\* The loop over an entry's hooks (lines 140-147, 172-179): each is logged,
\* and executed unless dry; the first Err ends the run.
RECURSIVE RunHooks(_, _, _, _, _, _)
RunHooks(f, cmds, name, kind, dry, evs) ==
    IF cmds = <<>> THEN Res(TRUE, f, <<>>, evs)
    ELSE IF dry
         THEN RunHooks(f, Tail(cmds), name, kind, dry,
                       evs \o <<Ev(kind \o "_log", <<Head(cmds)>>, <<name>>)>>)
    ELSE IF ExecuteHook(Head(cmds))
         THEN RunHooks(f, Tail(cmds), name, kind, dry,
                       evs \o <<Ev(kind \o "_log", <<Head(cmds)>>, <<name>>),
                                Ev(kind \o "_run", <<Head(cmds)>>, <<name>>)>>)
    ELSE Res(FALSE, f, <<>>, evs \o <<Ev(kind \o "_log", <<Head(cmds)>>, <<name>>),
                                      Ev("error", <<Head(cmds)>>, <<name>>)>>)

\* --------------------------------------------------------------- the state
VARIABLES
    fs,        \* the file system
    home,      \* the value of HOME, None when unset
    manifest,  \* the parsed Manifest: options, variables, entries
    args,      \* cli::Cli: op (subcommand), force, dry, name
    pc,        \* where entrypoint is: idle, pre, link, gen, post, exit, done
    queue,     \* the entries still to process, each with its name
    context,   \* the TemplateContext
    log,       \* the events of the current run
    ops,       \* the file-system mutations of the current run
    builds,    \* calls of init_template_context in the current run
    start,     \* the file system when the current run began
    hist       \* the finished runs: [fs0, fs1, res, log, ops, builds]

vars == <<fs, home, manifest, args, pc, queue, context, log, ops, builds, start, hist>>

EmptyMap == [k \in {} |-> ""]

Entry(target, dest, template, recursive, pre, post) ==
    [target |-> target, dest |-> dest, template |-> template,
     recursive |-> recursive, pre_hooks |-> pre, post_hooks |-> post]

\* ------------------------------------------------------- the initial states
Home == <<"h">>
SrcF == <<"s", "f">>
SrcD == <<"s", "d">>
SrcL == <<"s", "l">>
SrcM == <<"s", "m">>
SrcT == <<"s", "t">>
SrcBad == <<"s", "u">>
SrcNoKey == <<"s", "v">>
Wall == <<"w">>
DestA == <<"~", "a">>
DestB == <<"~", "p", "b">>
DestC == <<"~", "q", "c">>

\* The source tree (s/l is a link to s/f; the templates s/t, s/u, which does
\* not compile, and s/v, which names a key no context has), the wallpaper, a
\* foreign file and a foreign directory.
BaseFs ==
    (<<>> :> DirNode) @@ (<<"h">> :> DirNode) @@ (<<"s">> :> DirNode)
    @@ (SrcF :> FileNode("F")) @@ (SrcL :> LinkNode(SrcF))
    @@ (SrcD :> DirNode) @@ (<<"s", "d", "g">> :> FileNode("G"))
    @@ (<<"s", "d", "e">> :> DirNode) @@ (<<"s", "d", "e", "k">> :> FileNode("K"))
    @@ (SrcT :> FileNode("{{theme}}"))
    @@ (SrcBad :> FileNode("{{")) @@ (SrcNoKey :> FileNode("{{nokey}}"))
    @@ (Wall :> FileNode("IMG"))
    @@ (<<"o">> :> FileNode("O")) @@ (<<"od">> :> DirNode)

\* A link inside the source tree to one of its own ancestors.
LoopFs == (<<"s", "d", "up">> :> LinkNode(SrcD))

\* What the destination ~/a may hold before the first run: nothing, a file,
\* a directory, a link (to the target, to a foreign file or directory, to
\* nothing), or a directory that holds some of what a recursive walk makes.
HA == <<"h", "a">>
FlatLayouts ==
    { EmptyMap,
      HA :> FileNode("X"),
      HA :> DirNode,
      HA :> LinkNode(<<"o">>),
      HA :> LinkNode(<<"od">>),
      HA :> LinkNode(<<"nx">>) }
UpToDate(target) == HA :> LinkNode(target)
NestedLayouts ==
    { (HA :> DirNode) @@ (<<"h", "a", "g">> :> FileNode("X")),
      (HA :> DirNode) @@ (<<"h", "a", "g">> :> LinkNode(<<"s", "d", "g">>)),
      (HA :> DirNode) @@ (<<"h", "a", "g">> :> LinkNode(<<"nx">>)),
      (HA :> DirNode) @@ (<<"h", "a", "e">> :> FileNode("X")) }

\* Entry a links (and may render) to ~/a; entry b links to ~/p/b, under a
\* directory that does not exist yet, from a target that is a link or is
\* missing, and has hooks ("false" exits with status 1).
EntriesA ==
    { Entry(t[1], DestA, tpl, t[2], <<>>, <<>>) :
        t \in {<<SrcF, FALSE>>, <<SrcD, FALSE>>, <<SrcD, TRUE>>},
        tpl \in {None, SrcT} }
EntriesB ==
    { Entry(t, DestB, None, FALSE, <<"true", "false">>, <<"false">>) : t \in {SrcL, SrcM} }

\* Entry b with a hook that cannot be launched: no program in the command
\* line, or a program that does not exist.
EntriesBadHook ==
    { Entry(SrcL, DestB, None, FALSE, h[1], h[2]) :
        h \in { <<<<"true", "nosuch", "true">>, <<"true">>>>,
                <<<<" ">>, <<"true">>>>,
                <<<<"">>, <<"true">>>>,
                <<<<"true">>, <<"nosuch", "true">>>> } }

\* A second entry under the name a: no target, a template rendered to ~/q/c,
\* under a directory that does not exist yet.
EntriesC == { Entry(None, DestC, tpl, FALSE, <<>>, <<>>) : tpl \in {SrcT, SrcBad, SrcNoKey} }

\* The user's variables: none, or one that collides with a palette key and
\* one that does not.
Variables == { EmptyMap, ("theme" :> "mine") @@ ("font" :> "mono") }

Manifest(w, vs, as, b) ==
    [loaded |-> TRUE, wallpaper |-> w, theme |-> "dark", variant |-> "tonal_spot",
     variables |-> vs, entries |-> ("a" :> as) @@ ("b" :> <<b>>)]

\* Manifest::try_from returned Err: there is no manifest
Unloaded ==
    [loaded |-> FALSE, wallpaper |-> None, theme |-> "dark", variant |-> "tonal_spot",
     variables |-> EmptyMap, entries |-> EmptyMap]

\* The manifests: one entry per name and every shape of entry a; or two
\* entries under the name a and an entry b with hooks, target and template;
\* or an entry b whose hooks cannot be launched.
Manifests ==
    { Manifest(w, EmptyMap, <<a>>, b) : w \in {Wall, None}, a \in EntriesA, b \in EntriesB }
ManifestsTwo ==
    { Manifest(w, vs, <<Entry(SrcF, DestA, tpl, FALSE, <<>>, <<>>), c>>,
               Entry(SrcL, DestB, SrcT, FALSE, <<"true", "false">>, <<"false">>)) :
        w \in {Wall, None}, vs \in Variables, tpl \in {None, SrcT}, c \in EntriesC }
ManifestsBadHook ==
    { Manifest(Wall, EmptyMap, <<Entry(SrcF, DestA, None, FALSE, <<>>, <<>>)>>, b) :
        b \in EntriesBadHook }

\* The order in which the manifest file declares the names
Declared == <<"a", "b">>

\* cli::Cli: Generate has no force flag.
Args ==
    { a \in [op : {"sync", "link", "generate"}, force : BOOLEAN, dry : BOOLEAN,
             name : {None, <<"a">>, <<"zz">>}] :
        a.op = "generate" => ~a.force }

\* The layouts of the destinations that go with manifest m
Layouts(m) ==
    IF m \in Manifests
    THEN { [lay |-> l, loop |-> lp] :
             l \in FlatLayouts \cup NestedLayouts \cup {UpToDate(m.entries["a"][1].target)},
             lp \in BOOLEAN }
    ELSE IF m \in ManifestsTwo
         THEN { [lay |-> l, loop |-> FALSE] : l \in {EmptyMap, HA :> FileNode("X")} }
    ELSE { [lay |-> EmptyMap, loop |-> FALSE] }

\* The initial states: a destination layout that entry a can meet, and a
\* wallpaper left unset only where a template asks for it; h is the value
\* of HOME in the environment of the process.
InitAt(h) ==
    /\ manifest \in Manifests \cup ManifestsTwo \cup ManifestsBadHook \cup {Unloaded}
    /\ (manifest \in Manifests /\ manifest.wallpaper = None)
          => manifest.entries["a"][1].template # None
    /\ \E l \in Layouts(manifest) :
         /\ (l.loop \/ l.lay \in NestedLayouts) => manifest.entries["a"][1].recursive
         /\ fs = (IF l.loop THEN LoopFs ELSE EmptyMap) @@ l.lay @@ BaseFs
    /\ home = h
    /\ args \in Args
    /\ manifest = Unloaded => (args.name = None /\ ~args.force)
    /\ pc = "idle"
    /\ queue = <<>>
    /\ context = EmptyMap
    /\ log = <<>>
    /\ ops = <<>>
    /\ builds = 0
    /\ start = fs
    /\ hist = <<>>

\* HOME is set
Init == InitAt(Home)
\* HOME is set or unset
InitEnv == \E h \in {Home, None} : InitAt(h)

\* ------------------------------------------------------------- entrypoint
\* FirstStep, were the hooks run by every subcommand
FirstStep_AlwaysPre == "pre"
FirstStep == IF args.op = "sync" THEN "pre" ELSE IF args.op = "link" THEN "link" ELSE "gen"
LastStep == IF args.op = "sync" THEN "post" ELSE IF args.op = "link" THEN "link" ELSE "gen"
\* StepAfter, were the template rendered before the symlink step
StepAfter_TemplateFirst(step) ==
    CASE step = "pre" -> "gen" [] step = "gen" -> "link" [] step = "link" -> "post"
      [] OTHER -> "exit"

StepAfter(step) ==
    CASE step = "pre" -> "link" [] step = "link" -> "gen" [] step = "gen" -> "post"
      [] OTHER -> "exit"

\* Finish, were the exit status 0 whatever entrypoint returned
Finish_AlwaysOk(res, f, o, l, b) ==
    /\ pc' = "done"
    /\ queue' = <<>>
    /\ hist' = Append(hist, [fs0 |-> IF pc \in {"idle", "done"} THEN fs ELSE start,
                             fs1 |-> f, res |-> "ok",
                             log |-> l, ops |-> o, builds |-> b])

\* The process ends: main exits with 0 on Ok and with 1 on Err. (A run that
\* ends before its first step began with the file system as it is now.)
Finish(res, f, o, l, b) ==
    /\ pc' = "done"
    /\ queue' = <<>>
    /\ hist' = Append(hist, [fs0 |-> IF pc \in {"idle", "done"} THEN fs ELSE start,
                             fs1 |-> f, res |-> res,
                             log |-> l, ops |-> o, builds |-> b])

\* The step of the head entry is over: the next step, the next entry, or
\* the end of the loop.
Advance ==
    IF pc # LastStep THEN /\ pc' = StepAfter(pc)
                          /\ queue' = queue
    ELSE /\ queue' = Tail(queue)
         /\ pc' = IF Tail(queue) = <<>> THEN "exit" ELSE FirstStep

\* The entries of name n, each paired with its name.
Named(n) == [i \in 1..Len(manifest.entries[n]) |-> [name |-> n, entry |-> manifest.entries[n][i]]]

\* HashMap::iter yields the names in an order the program does not choose.
NameOrders ==
    {o \in [1..Cardinality(DOMAIN manifest.entries) -> DOMAIN manifest.entries] :
        \A i, j \in DOMAIN o : i # j => o[i] # o[j]}
RECURSIVE Flatten(_)
Flatten(o) == IF o = <<>> THEN <<>> ELSE Named(Head(o)) \o Flatten(Tail(o))

\* The loop over the entries begins with queue q, or the run ends at once
\* because the context c could not be built; b counts the context builds.
Begin(q, c, b) ==
    /\ context' = c.ctx
    /\ ops' = <<>>
    /\ builds' = b
    /\ IF c.ok
       THEN /\ log' = IF b > 0 THEN <<Ev("context", <<>>, None)>> ELSE <<>>
            /\ queue' = q
            /\ pc' = IF q = <<>> THEN "exit" ELSE FirstStep
            /\ UNCHANGED hist
       ELSE /\ log' = <<Ev("error", <<>>, None)>>
            /\ Finish("err", fs, <<>>, <<Ev("error", <<>>, None)>>, b)

\* manifest.entries.get(name), were an unknown name answered with entry a
EntriesGet_Fallback(n) ==
    [found |-> TRUE,
     q |-> IF n \in DOMAIN manifest.entries THEN Named(n) ELSE Named("a")]

\* manifest.entries.get(name)
EntriesGet(n) ==
    [found |-> n \in DOMAIN manifest.entries,
     q |-> IF n \in DOMAIN manifest.entries THEN Named(n) ELSE <<>>]

\* The run ends before the loop over the entries, with event ev
Refuse(ev) ==
    /\ context' = EmptyMap
    /\ log' = <<ev>>
    /\ ops' = <<>>
    /\ builds' = 0
    /\ Finish("err", fs, <<>>, <<ev>>, 0)

\* entrypoint with a NAME: g is what manifest.entries.get(name) gave
InvokeNamed(g) ==
    IF g.found THEN Begin(g.q, [ok |-> TRUE, ctx |-> EmptyMap], 0)
    ELSE Refuse(Ev("notfound", args.name, None))

\* entrypoint up to the loop over the entries (lines 120-139, 181-188,
\* 233-243, 253-257, 271-277, 292-299): a run begins.
Invoke ==
    /\ pc \in {"idle", "done"}
    /\ Len(hist) < MaxRuns
    /\ start' = fs
    /\ UNCHANGED <<fs, home, manifest, args>>
    /\ IF ~manifest.loaded THEN Refuse(Ev("nomanifest", <<>>, None))
       ELSE IF args.name # None THEN InvokeNamed(EntriesGet(args.name[1]))
       ELSE \E o \in NameOrders :
            IF args.op # "link" /\ HasTemplates(manifest)
            THEN Begin(Flatten(o), InitTemplateContext(fs, home, manifest, EmptyMap), 1)
            ELSE Begin(Flatten(o), [ok |-> TRUE, ctx |-> EmptyMap], 0)

\* A step that ended with Err: the error reaches main, which exits with 1.
Abort(f, o, l, b) ==
    /\ fs' = f
    /\ ops' = o
    /\ log' = l
    /\ builds' = b
    /\ Finish("err", f, o, l, b)

\* A step of the head entry returned r, after logging pre; b counts the
\* context builds so far.
Settle(r, pre, b) ==
    IF r.ok THEN /\ fs' = r.fs
                 /\ ops' = ops \o r.ops
                 /\ log' = log \o pre \o r.evs
                 /\ builds' = b
                 /\ Advance
                 /\ UNCHANGED hist
    ELSE Abort(r.fs, ops \o r.ops, log \o pre \o r.evs, b)

\* Sync: the entry's pre_hooks (lines 140-147, 190-197)
PreHooks ==
    /\ pc = "pre"
    /\ Settle(RunHooks(fs, Head(queue).entry.pre_hooks, Head(queue).name, "pre",
                       args.dry, <<>>), <<>>, builds)
    /\ UNCHANGED <<home, manifest, args, context, start>>

\* The symlink step of entry e, read_dir yielding names in order ord
SymlinkStep(e, ord) ==
    IF e.entry.target = None THEN Res(TRUE, fs, <<>>, <<>>)
    ELSE SymlinkDirAll(fs, [home |-> home, force |-> args.force, dry |-> args.dry,
                            recursive |-> e.entry.recursive, ord |-> ord],
                       e.entry.target, e.entry.dest, 0)

\* Sync, Link: the entry's symlink step (lines 149-156, 199-206, 244-251, 259-266)
Symlink ==
    /\ pc = "link"
    /\ \E ord \in {"up", "down"} : Settle(SymlinkStep(Head(queue), ord), <<>>, builds)
    /\ UNCHANGED <<home, manifest, args, context, start>>

\* The template step of entry e with the context c, built b times so far
Rendered(e, c, b) ==
    /\ context' = c.ctx
    /\ IF ~c.ok THEN Abort(fs, ops, log \o <<Ev("error", <<>>, None)>>, b)
       ELSE Settle(GenerateTemplate(fs, home, e.entry.dest, e.entry.template,
                                    c.ctx, args.dry),
                   IF b > builds THEN <<Ev("context", <<>>, None)>> ELSE <<>>, b)

\* Sync, Generate: the entry's template step (lines 158-170, 208-219,
\* 278-290, 301-312); with a NAME the context is built here, per entry.
Template ==
    /\ pc = "gen"
    /\ IF Head(queue).entry.template = None
       THEN /\ context' = context
            /\ Settle(Res(TRUE, fs, <<>>, <<>>), <<>>, builds)
       ELSE IF args.name # None
            THEN Rendered(Head(queue),
                          InitTemplateContext(fs, home, manifest, context), builds + 1)
       ELSE Rendered(Head(queue), [ok |-> TRUE, ctx |-> context], builds)
    /\ UNCHANGED <<home, manifest, args, start>>

\* Sync: the entry's post_hooks (lines 172-179, 221-228)
PostHooks ==
    /\ pc = "post"
    /\ Settle(RunHooks(fs, Head(queue).entry.post_hooks, Head(queue).name, "post",
                       args.dry, <<>>), <<>>, builds)
    /\ UNCHANGED <<home, manifest, args, context, start>>

\* entrypoint returns Ok(()) (line 319) and main exits with 0
Exit ==
    /\ pc = "exit"
    /\ Finish("ok", fs, ops, log, builds)
    /\ UNCHANGED <<fs, home, manifest, args, context, log, ops, builds, start>>

\* Between two runs the user repairs what made a run fail: a target the
\* manifest names and the source tree lacks is put in place,
Repair ==
    /\ pc = "done"
    /\ hist[Len(hist)].res = "err"
    /\ \E n \in DOMAIN manifest.entries : \E i \in 1..Len(manifest.entries[n]) :
         /\ manifest.entries[n][i].target # None
         /\ ~Exists(fs, manifest.entries[n][i].target)
         /\ LPath(fs, manifest.entries[n][i].target) # NoPath
         /\ fs' = Put(fs, LPath(fs, manifest.entries[n][i].target), FileNode("M"))
    /\ UNCHANGED <<home, manifest, args, pc, queue, context, log, ops, builds, start, hist>>

\* or a foreign file that sits where the run needs a directory is moved away.
Unblock ==
    /\ pc = "done"
    /\ hist[Len(hist)].res = "err"
    /\ \E q \in DOMAIN fs :
         /\ Len(q) > Len(Home) /\ SubSeq(q, 1, Len(Home)) = Home
         /\ fs[q] = FileNode("X")
         /\ \E i \in DOMAIN log : log[i].e = "error" /\ log[i].p = q
         /\ fs' = Del(fs, q)
    /\ UNCHANGED <<home, manifest, args, pc, queue, context, log, ops, builds, start, hist>>

Next ==
    \/ Invoke
    \/ PreHooks
    \/ Symlink
    \/ Template
    \/ PostHooks
    \/ Exit
    \/ Repair
    \/ Unblock

Spec == Init /\ [][Next]_vars
\* The same program in an environment where HOME may be unset
SpecEnv == InitEnv /\ [][Next]_vars

\* ================================================================== claims
\* The vocabulary of the claims about one symlink step (the Symlink action).
HeadEntry == Head(queue).entry
HeadDest == ResolveHomeDir(home, HeadEntry.dest).p
HeadTarget == Canonicalize(fs, HeadEntry.target)
\* the step links one path: its target is no directory walked recursively
LeafStep ==
    /\ pc = "link"
    /\ HeadEntry.target # None
    /\ HeadTarget # NoPath
    /\ ~(HeadEntry.recursive /\ KindAt(fs, HeadTarget) = "dir")
\* the step walks a directory
WalkStep ==
    /\ pc = "link"
    /\ HeadEntry.target # None
    /\ HeadEntry.recursive
    /\ KindAt(fs, HeadTarget) = "dir"
StepOk == pc' # "done"
StepOps == SubSeq(ops', Len(ops) + 1, Len(ops'))
StepEvs == SubSeq(log', Len(log) + 1, Len(log'))

LExists(f, p) == LPath(f, p) # NoPath /\ LPath(f, p) \in DOMAIN f
Dangling(f, p) == IsSymlink(f, p) /\ ~Exists(f, p)
\* p holds a regular file, a directory, or a link that resolves elsewhere than t
Occupied(f, p, t) ==
    /\ LExists(f, p)
    /\ \/ KindAt(f, LPath(f, p)) \in {"file", "dir"}
       \/ Exists(f, p) /\ Canonicalize(f, p) # t
\* the entry at the real path q is a file, a directory or a link that resolves
Protected(f, q) == f[q].k \in {"file", "dir"} \/ Exists(f, q)
IsPrefix(p, q) == Len(p) <= Len(q) /\ SubSeq(q, 1, Len(p)) = p
HasEvent(l, e) == \E i \in DOMAIN l : l[i].e = e
Logged(l, ev) == \E i \in DOMAIN l : l[i] = ev
\* the entry at the real path q is node
Holds(f, q, node) == q \in DOMAIN f /\ f[q] = node
LinkedTo(f, p, t) == Holds(f, LPath(f, p), LinkNode(t))

\* C1: with force=false a symlink step never removes, replaces or rewrites an
\* entry that is a regular file, a directory or a link that resolves: every
\* such entry is after the step exactly what it was before.
C1_ConflictSafety ==
    [][(pc = "link" /\ ~args.force) =>
          \A q \in DOMAIN fs : Protected(fs, q) => (q \in DOMAIN fs' /\ fs'[q] = fs[q])]_vars

\* A run without force met a conflict at ~/a, skipped it and went on to link
\* another destination.
C1_Witness ==
    /\ ~args.force /\ ~args.dry
    /\ \E i \in DOMAIN log : log[i].e = "conflict" /\ log[i].p = HA
    /\ HasEvent(log, "linked")
    /\ KindAt(fs, HA) = "file"

\* C2 (as claimed): when sync has run twice on the same manifest with
\* identical inputs and no external change in between, the second run
\* removed nothing, created nothing and relinked nothing, and the file
\* system after it equals the file system after the first run.
C2_SecondSyncMutatesNothing ==
    (/\ Len(hist) >= 2
     /\ args.op = "sync" /\ ~args.dry
     /\ hist[1].res = "ok"
     /\ hist[2].fs0 = hist[1].fs1)
    => /\ \A i \in DOMAIN hist[2].ops : hist[2].ops[i].op \notin {"remove", "mkdir", "symlink"}
       /\ hist[2].fs1 = hist[1].fs1

\* C3 (as claimed): with force=true, whatever the destination holds (a file,
\* a directory, a link to another target), the step succeeds and the
\* destination is afterwards a link to the target's canonical path.
C3_ForceReplacesAnything ==
    [][(LeafStep /\ args.force /\ ~args.dry /\ Occupied(fs, HeadDest, HeadTarget)) =>
          (StepOk /\ LinkedTo(fs', HeadDest, HeadTarget))]_vars

\* C4: when the destination is a dangling link, symlink_file removes it and
\* creates a link to the target's canonical path, with and without force,
\* and returns success (in a run that is not dry); this holds for the
\* destination of an entry and for each destination a recursive walk links.
C4_BrokenLinkHealed ==
    [][/\ (LeafStep /\ ~args.dry /\ Dangling(fs, HeadDest)) =>
            /\ StepOk
            /\ LinkedTo(fs', HeadDest, HeadTarget)
            /\ StepOps = <<Op("remove", LPath(fs, HeadDest)),
                           Op("symlink", LPath(fs, HeadDest))>>
       /\ (WalkStep /\ ~args.dry /\ StepOk) =>
            \A n \in ReadDir(fs, HeadTarget) :
               (KindAt(fs, Join(HeadTarget, n)) = "file" /\ Dangling(fs, Join(HeadDest, n)))
                  => LinkedTo(fs', Join(HeadDest, n), Join(HeadTarget, n))
       /\ (pc = "link" /\ ~args.dry) =>
            \A i \in DOMAIN StepEvs : StepEvs[i].e = "broken" =>
               /\ i < Len(StepEvs)
               /\ StepEvs[i + 1].e = "linked"
               /\ StepEvs[i + 1].p = StepEvs[i].p]_vars

\* A dangling link at ~/a was found and replaced by a link to the target, in
\* a run without force.
C4_Witness ==
    /\ manifest.loaded /\ ~args.force /\ ~args.dry
    /\ Dangling(start, HA)
    /\ \E i \in DOMAIN log : log[i].e = "broken" /\ log[i].p = HA
    /\ LinkedTo(fs, HA, manifest.entries["a"][1].target)

\* C5 (as claimed): when the destination is already a link that resolves to
\* the target's canonical path, symlink_file makes no file-system operation
\* and reports the link up to date, whatever the value of force.
C5_UpToDateIsNoOp ==
    [][(LeafStep /\ IsSymlink(fs, HeadDest) /\ Canonicalize(fs, HeadDest) = HeadTarget) =>
          /\ StepOps = <<>>
          /\ fs' = fs
          /\ StepEvs = <<Ev("uptodate", HeadDest, HeadTarget)>>]_vars

\* every directory that dest lies under is there as a directory or may be made
Clear(f, q) == IsDir(f, q) \/ LPath(f, q) \notin DOMAIN f
\* dest does not exist, is no dangling link, and its parents can be created
Fresh(f, dest) ==
    /\ ~Exists(f, dest)
    /\ ~IsSymlink(f, dest)
    /\ \A i \in 0..(Len(dest) - 1) : Clear(f, SubSeq(dest, 1, i))
\* where dest lives once its parents are there
RealDest(f, dest) == Join(Canonicalize(f, Parent(dest)), FileName(dest))
LastRun == hist[Len(hist)]

\* C6: when the destination does not exist and is no dangling link, the
\* symlink step (not dry) succeeds, makes every missing parent a directory
\* and then the destination a link whose stored target is the canonical
\* path of the source, touching nothing else; and when the next run of link
\* or sync without force comes to a destination the run before linked, it
\* reports it up to date and mutates nothing.
C6_FreshDestination ==
    [][/\ (LeafStep /\ ~args.dry /\ Fresh(fs, HeadDest)) =>
            /\ StepOk
            /\ LinkedTo(fs', HeadDest, HeadTarget)
            /\ \A i \in 0..(Len(HeadDest) - 1) : IsDir(fs', SubSeq(HeadDest, 1, i))
            /\ StepOps # <<>>
            /\ StepOps[Len(StepOps)] = Op("symlink", RealDest(fs', HeadDest))
            /\ \A i \in 1..(Len(StepOps) - 1) :
                  StepOps[i].op = "mkdir" /\ IsPrefix(StepOps[i].p, RealDest(fs', HeadDest))
            /\ \A q \in DOMAIN fs : q \in DOMAIN fs' /\ fs'[q] = fs[q]
            /\ StepEvs = <<Ev("linked", HeadDest, HeadTarget)>>
       /\ (/\ LeafStep /\ ~args.dry /\ ~args.force
           /\ Len(hist) >= 1
           /\ Logged(LastRun.log, Ev("linked", HeadDest, HeadTarget))
           /\ LPath(fs, HeadDest) \in DOMAIN LastRun.fs1
           /\ Holds(fs, LPath(fs, HeadDest), LastRun.fs1[LPath(fs, HeadDest)])) =>
            /\ StepOk
            /\ StepOps = <<>>
            /\ fs' = fs
            /\ StepEvs = <<Ev("uptodate", HeadDest, HeadTarget)>>]_vars

\* Entry b was linked at ~/p/b, under a directory the run had to create, to
\* the canonical path of its target s/l (a link to s/f), and the second run
\* found it up to date.
C6_Witness ==
    /\ ~args.dry /\ ~args.force
    /\ Len(hist) = 2
    /\ <<"h", "p">> \notin DOMAIN hist[1].fs0
    /\ Logged(hist[1].log, Ev("linked", <<"h", "p", "b">>, SrcF))
    /\ Logged(hist[2].log, Ev("uptodate", <<"h", "p", "b">>, SrcF))
    /\ Holds(fs, <<"h", "p">>, DirNode)
    /\ Holds(fs, <<"h", "p", "b">>, LinkNode(SrcF))

\* the tree under the directory t holds files and directories only
NoSourceLinks(f, t) == \A q \in DOMAIN f : IsPrefix(t, q) => f[q].k # "link"
\* the files under the directory t, as paths relative to t
FilesUnder(f, t) ==
    {SubSeq(q, Len(t) + 1, Len(q)) : q \in {r \in DOMAIN f : IsPrefix(t, r) /\ f[r].k = "file"}}
Prefixes(r) == {SubSeq(r, 1, i) : i \in 0..Len(r)}

\* C7: for a directory target (a tree of files and directories) and a
\* destination that is absent, the step (not dry) succeeds and, with
\* recursive=true, creates for every file at relative path r under the
\* target a link at dest/r to that file's canonical path, every component of
\* dest/r above it being a real directory, and creates nothing else (so no
\* link to a directory); with recursive=false it creates exactly one link,
\* at dest, to the target directory.
C7_RecursiveMirroring ==
    [][(/\ pc = "link" /\ ~args.dry
        /\ HeadEntry.target # None
        /\ KindAt(fs, HeadTarget) = "dir"
        /\ NoSourceLinks(fs, HeadTarget)
        /\ Fresh(fs, HeadDest)
        /\ IsDir(fs, Parent(HeadDest))) =>
          /\ StepOk
          /\ \A q \in DOMAIN fs : q \in DOMAIN fs' /\ fs'[q] = fs[q]
          /\ IF HeadEntry.recursive
             THEN /\ \A r \in FilesUnder(fs, HeadTarget) :
                       /\ Holds(fs', RealDest(fs, HeadDest) \o r, LinkNode(HeadTarget \o r))
                       /\ \A d \in Prefixes(r) \ {r} :
                             Holds(fs', RealDest(fs, HeadDest) \o d, DirNode)
                  /\ (DOMAIN fs') \ (DOMAIN fs) =
                       {RealDest(fs, HeadDest) \o d :
                          d \in UNION {Prefixes(r) : r \in FilesUnder(fs, HeadTarget)}}
             ELSE fs' = Put(fs, RealDest(fs, HeadDest), LinkNode(HeadTarget))]_vars

\* The directory s/d was mirrored under ~/a, which was absent: ~/a and ~/a/e
\* are directories, ~/a/g and ~/a/e/k links to the files.
C7_Witness ==
    /\ manifest.loaded /\ ~args.dry
    /\ HA \notin DOMAIN start
    /\ manifest.entries["a"][1].recursive
    /\ Holds(fs, HA, DirNode)
    /\ Holds(fs, <<"h", "a", "e">>, DirNode)
    /\ Holds(fs, <<"h", "a", "g">>, LinkNode(<<"s", "d", "g">>))
    /\ Holds(fs, <<"h", "a", "e", "k">>, LinkNode(<<"s", "d", "e", "k">>))

\* C8 (as claimed): a recursive walk never enters the same source directory
\* a second time below a destination it entered it for, and never runs out
\* of stack: a link in the source tree to one of its ancestors is not
\* descended again.
C8_NoSecondDescent ==
    /\ \A i, j \in DOMAIN log :
          (i < j /\ log[i].e = "enter" /\ log[j].e = "enter" /\ log[i].t = log[j].t)
             => ~IsPrefix(log[i].p, log[j].p)
    /\ ~HasEvent(log, "overflow")

\* no link in the destination tree of the head entry dangles
NoDangling(f, dest) ==
    \A q \in DOMAIN f : (IsPrefix(RealDest(f, dest), q) /\ f[q].k = "link") => Exists(f, q)

\* C9 (as claimed): with force=false, whatever files, directories and links
\* that resolve the destination tree holds (a regular file where the walk
\* needs a directory included), the symlink step of an entry whose target
\* exists returns success, so that the rest of the run goes on.
C9_ConflictsNeverFatal ==
    [][(/\ pc = "link" /\ ~args.force
        /\ HeadEntry.target # None
        /\ HeadTarget # NoPath
        /\ NoSourceLinks(fs, HeadTarget)
        /\ NoDangling(fs, HeadDest)) => StepOk]_vars

\* A sync that never failed, as a function: the entries of q in turn, each
\* linked and then rendered, without force and not dry (hooks change nothing
\* in the file system).
RECURSIVE RefSync(_, _, _, _)
RefLink(f, e, ord) ==
    IF e.entry.target = None THEN Res(TRUE, f, <<>>, <<>>)
    ELSE SymlinkDirAll(f, [home |-> home, force |-> FALSE, dry |-> FALSE,
                           recursive |-> e.entry.recursive, ord |-> ord],
                       e.entry.target, e.entry.dest, 0)
RefGen(f, e, ctx) ==
    IF e.entry.template = None THEN Res(TRUE, f, <<>>, <<>>)
    ELSE GenerateTemplate(f, home, e.entry.dest, e.entry.template, ctx, FALSE)
RefAfterGen(g, q, ord, ctx) ==
    IF ~g.ok THEN g ELSE RefSync(g.fs, Tail(q), ord, ctx)
RefAfterLink(l, q, ord, ctx) ==
    IF ~l.ok THEN l ELSE RefAfterGen(RefGen(l.fs, Head(q), ctx), q, ord, ctx)
RefSync(f, q, ord, ctx) ==
    IF q = <<>> THEN Res(TRUE, f, <<>>, <<>>)
    ELSE RefAfterLink(RefLink(f, Head(q), ord), q, ord, ctx)
RefQueues ==
    IF args.name = None THEN {Flatten(o) : o \in NameOrders} ELSE {Named(args.name[1])}
RefCtx(f) == InitTemplateContext(f, home, manifest, EmptyMap).ctx
RefRun(f, q, ord) == RefSync(f, q, ord, RefCtx(f))

\* The file system f0 with the repairs made between f1 and g0: what was
\* added is added, what was taken away is taken away.
Fixed(f0, f1, g0) ==
    [q \in ((DOMAIN f0) \ ((DOMAIN f1) \ (DOMAIN g0))) \cup ((DOMAIN g0) \ (DOMAIN f1)) |->
        IF q \in (DOMAIN g0) \ (DOMAIN f1) THEN g0[q] ELSE f0[q]]

\* C10: when a sync (force=false, not dry) ended with an error, its cause
\* was repaired and the next sync succeeded, then the second run touched no
\* link the first had created (each is still what it was, and was reported
\* up to date), created links only where nothing resolved before, and ended
\* in the file system that a sync of the same entries ends in when run on
\* the first run's initial file system with the repairs already made.
C10_RecoveryByRerun ==
    (/\ Len(hist) = 2
     /\ args.op = "sync" /\ ~args.force /\ ~args.dry
     /\ hist[1].res = "err" /\ hist[2].res = "ok")
    => /\ \A i \in DOMAIN hist[1].ops : hist[1].ops[i].op = "symlink" =>
             /\ Holds(hist[2].fs1, hist[1].ops[i].p, hist[1].fs1[hist[1].ops[i].p])
             /\ \A j \in DOMAIN hist[2].ops : hist[2].ops[j].p # hist[1].ops[i].p
       /\ \A i \in DOMAIN hist[1].log : hist[1].log[i].e = "linked" =>
             Logged(hist[2].log, Ev("uptodate", hist[1].log[i].p, hist[1].log[i].t))
       /\ \A j \in DOMAIN hist[2].ops : hist[2].ops[j].op = "symlink" =>
             ~Exists(hist[2].fs0, hist[2].ops[j].p)
       /\ \A q \in RefQueues, ord \in {"up", "down"} :
             /\ RefRun(Fixed(hist[1].fs0, hist[1].fs1, hist[2].fs0), q, ord).ok
             /\ RefRun(Fixed(hist[1].fs0, hist[1].fs1, hist[2].fs0), q, ord).fs = hist[2].fs1

\* A recursive sync linked ~/a/g, stopped at the file in the place of ~/a/e,
\* and after the file was moved away the second sync found ~/a/g up to date
\* and linked ~/a/e/k.
C10_Witness ==
    /\ Len(hist) = 2
    /\ args.op = "sync" /\ ~args.force /\ ~args.dry
    /\ hist[1].res = "err" /\ hist[2].res = "ok"
    /\ Logged(hist[1].ops, Op("symlink", <<"h", "a", "g">>))
    /\ Holds(hist[1].fs1, <<"h", "a", "e">>, FileNode("X"))
    /\ Logged(hist[2].log, Ev("uptodate", <<"h", "a", "g">>, <<"s", "d", "g">>))
    /\ Logged(hist[2].ops, Op("symlink", <<"h", "a", "e", "k">>))


UnknownName ==
    manifest.loaded /\ args.name # None /\ args.name[1] \notin DOMAIN manifest.entries
IsHookEvent(ev) == ev.e \in {"pre_log", "pre_run", "post_log", "post_run"}

\* C11: when the NAME given to sync, link or generate is no key of the
\* manifest's entries, the run never enters the loop over the entries and
\* every run ends with the entry-not-found error alone: no hook logged or
\* executed, no mutation of the file system, no context built, no template
\* rendered.
C11_UnknownName ==
    UnknownName =>
       /\ pc \in {"idle", "done"}
       /\ builds = 0 /\ context = EmptyMap
       /\ \A i \in DOMAIN hist :
             /\ hist[i].res = "err"
             /\ hist[i].log = <<Ev("notfound", args.name, None)>>
             /\ hist[i].ops = <<>>
             /\ hist[i].builds = 0
             /\ hist[i].fs1 = hist[i].fs0

\* A sync of the unknown name zz, on a manifest whose entries have hooks,
\* targets and a template, has ended.
C11_Witness ==
    /\ UnknownName
    /\ args.op = "sync" /\ ~args.dry /\ args.force
    /\ HasTemplates(manifest)
    /\ Len(hist) >= 1
    /\ pc = "done"


\* The entries the run selects: those of NAME, or all of them
Selected ==
    IF args.name = None THEN Flatten(Declared)
    ELSE IF args.name[1] \in DOMAIN manifest.entries THEN Named(args.name[1])
    ELSE <<>>
SelectedTemplate == \E i \in DOMAIN Selected : Selected[i].entry.template # None
\* generate_template was called: it logged its success or its error
Rendering(l) ==
    \E i \in DOMAIN l : l[i].e = "generated" \/ (l[i].e = "error" /\ l[i].p # <<>>)
ContextError == Ev("error", <<>>, None)

\* C12: when options.wallpaper is unset and a selected entry declares a
\* template, generate (with a NAME or without) never calls
\* generate_template and never changes the file system, and every run ends
\* with an error whose last event is the failure to build the context.
C12_GenerateMissingWallpaper ==
    (/\ manifest.loaded /\ args.op = "generate"
     /\ manifest.wallpaper = None
     /\ SelectedTemplate)
    => /\ ops = <<>>
       /\ ~Rendering(log)
       /\ context = EmptyMap
       /\ \A i \in DOMAIN hist :
             /\ hist[i].res = "err"
             /\ hist[i].ops = <<>>
             /\ hist[i].fs1 = hist[i].fs0
             /\ ~Rendering(hist[i].log)
             /\ hist[i].log = <<ContextError>>

\* generate a, where the name a holds an entry without a template and then
\* one with a template, and no wallpaper is set, has ended.
C12_Witness ==
    /\ manifest.loaded
    /\ args.op = "generate" /\ ~args.dry /\ args.name = <<"a">>
    /\ manifest.wallpaper = None
    /\ Len(manifest.entries["a"]) = 2
    /\ manifest.entries["a"][1].template = None
    /\ manifest.entries["a"][2].template # None
    /\ pc = "done" /\ Len(hist) = 1
    /\ hist[1].log = <<ContextError>>


\* What the palette side puts into the context of the model's manifests:
\* the wallpaper path, the source color, a scheme role, an ANSI color and
\* the theme.
Palette ==
    ("wallpaper" :> "wallpaper-path") @@ ("source_color" :> "seed")
    @@ ("primary" :> "role") @@ ("red" :> "ansi") @@ ("theme" :> manifest.theme)

\* C13: once init_template_context has succeeded, the context holds for
\* every key of the manifest's variables the user's value, also where the
\* palette has the same key, for every other palette key the palette's
\* value, and nothing else.
C13_ContextPrecedence ==
    (/\ manifest.loaded
     /\ builds > 0
     /\ ~Logged(log, ContextError))
    => /\ DOMAIN context = (DOMAIN Palette) \cup (DOMAIN manifest.variables)
       /\ \A k \in DOMAIN manifest.variables : context[k] = manifest.variables[k]
       /\ \A k \in (DOMAIN Palette) \ (DOMAIN manifest.variables) : context[k] = Palette[k]

\* The manifest declares theme = "mine" and font; the built context holds
\* the user's theme and the palette's primary, and the template {{theme}}
\* was rendered to ~/q/c as "mine".
C13_Witness ==
    /\ manifest.loaded
    /\ "theme" \in DOMAIN manifest.variables
    /\ manifest.variables["theme"] # manifest.theme
    /\ builds > 0
    /\ "theme" \in DOMAIN context /\ context["theme"] = "mine"
    /\ "primary" \in DOMAIN context /\ context["primary"] = "role"
    /\ Holds(fs, <<"h", "q", "c">>, FileNode("mine"))


\* C14 (as claimed): no run builds the context more than once, and a run
\* that succeeds has built it exactly once when it renders templates (sync
\* or generate, and a selected entry declares a template) and not at all
\* otherwise.
C14_ContextBuiltOnce ==
    /\ builds <= 1
    /\ \A i \in DOMAIN hist :
          /\ hist[i].builds <= 1
          /\ hist[i].res = "ok" =>
                hist[i].builds = IF args.op # "link" /\ SelectedTemplate THEN 1 ELSE 0


IsSuffix(q, all) == \E k \in 1..(Len(all) + 1) : q = SubSeq(all, k, Len(all))

\* C15 (as claimed): without a NAME, the entries still to be processed are
\* at every moment of a run a tail of the entries in the order the manifest
\* declares them: they are visited one at a time in declared order.
C15_DeclaredOrder ==
    (manifest.loaded /\ args.name = None /\ pc \notin {"idle", "done"})
       => IsSuffix(queue, Flatten(Declared))


IsPreLog(ev) == ev.e = "pre_log"
IsPreRun(ev) == ev.e = "pre_run"
IsPostLog(ev) == ev.e = "post_log"
IsPostRun(ev) == ev.e = "post_run"
\* the events of kind e for the hooks cmds of the entry named n, in list order
HookEvents(e, cmds, n) == [i \in 1..Len(cmds) |-> Ev(e, <<cmds[i]>>, <<n>>)]
IsPrefixSeq(a, b) == Len(a) <= Len(b) /\ a = SubSeq(b, 1, Len(a))
\* evs holds the events of kind e for a prefix of cmds, for all when whole
HooksInOrder(evs, e, cmds, n, whole) ==
    /\ IsPrefixSeq(evs, HookEvents(e, cmds, n))
    /\ whole => evs = HookEvents(e, cmds, n)

\* C16: in sync every step of the run belongs to the head entry, and the
\* steps of an entry follow one another as pre_hooks, symlink step,
\* template step, post_hooks, the next entry beginning only after the
\* post_hooks and a failed step ending the run; the pre_hooks step logs
\* (and, unless dry, executes) the entry's pre_hooks in list order and
\* nothing else, the post_hooks step its post_hooks, and the symlink and
\* template steps no hook.
C16_HookBracketing ==
    [][(args.op = "sync" /\ pc \in {"pre", "link", "gen", "post"}) =>
          /\ \/ pc' = "done"
             \/ /\ pc = "pre" /\ pc' = "link" /\ queue' = queue
             \/ /\ pc = "link" /\ pc' = "gen" /\ queue' = queue
             \/ /\ pc = "gen" /\ pc' = "post" /\ queue' = queue
             \/ /\ pc = "post" /\ queue' = Tail(queue)
                /\ pc' = IF Tail(queue) = <<>> THEN "exit" ELSE "pre"
          /\ pc \in {"link", "gen"} => \A i \in DOMAIN StepEvs : ~IsHookEvent(StepEvs[i])
          /\ pc = "pre" =>
                /\ \A i \in DOMAIN StepEvs : StepEvs[i].e \in {"pre_log", "pre_run", "error"}
                /\ HooksInOrder(SelectSeq(StepEvs, IsPreLog), "pre_log",
                                HeadEntry.pre_hooks, Head(queue).name, StepOk)
                /\ HooksInOrder(SelectSeq(StepEvs, IsPreRun), "pre_run",
                                HeadEntry.pre_hooks, Head(queue).name, StepOk /\ ~args.dry)
          /\ pc = "post" =>
                /\ \A i \in DOMAIN StepEvs : StepEvs[i].e \in {"post_log", "post_run", "error"}
                /\ HooksInOrder(SelectSeq(StepEvs, IsPostLog), "post_log",
                                HeadEntry.post_hooks, Head(queue).name, StepOk)
                /\ HooksInOrder(SelectSeq(StepEvs, IsPostRun), "post_run",
                                HeadEntry.post_hooks, Head(queue).name, StepOk /\ ~args.dry)]_vars

\* A sync has run, for entry b, the pre_hooks true and false, then linked
\* ~/p/b, then rendered its template, then run the post_hook false.
C16_Witness ==
    /\ args.op = "sync" /\ ~args.dry
    /\ \E i, j, k, l, m \in DOMAIN log :
          /\ i < j /\ j < k /\ k < l /\ l < m
          /\ log[i] = Ev("pre_run", <<"true">>, <<"b">>)
          /\ log[j] = Ev("pre_run", <<"false">>, <<"b">>)
          /\ log[k].e = "linked" /\ log[k].p = <<"h", "p", "b">>
          /\ log[l].e = "generated" /\ log[l].p = <<"h", "p", "b">>
          /\ log[m] = Ev("post_run", <<"false">>, <<"b">>)


\* the command line names no program, or one that cannot be launched
CannotLaunch(cmd) == cmd \in {"", " "} \/ cmd \notin Launchable
HasBadHook(cmds) == \E i \in DOMAIN cmds : CannotLaunch(cmds[i])
FirstBad(cmds) == CHOOSE i \in DOMAIN cmds :
    CannotLaunch(cmds[i]) /\ \A j \in 1..(i - 1) : ~CannotLaunch(cmds[j])
IsHookRun(ev) == ev.e \in {"pre_run", "post_run"}
StepHooks == IF pc = "pre" THEN HeadEntry.pre_hooks ELSE HeadEntry.post_hooks

\* C17: when a hook of the step at hand (sync, not dry) has an empty command
\* line or a program that cannot be launched, the step executes the hooks
\* before it, logs it, fails on it and executes none after it; the run ends
\* there with an error, the file system as it was, and no further step of
\* this or a later entry.
C17_HookLaunchFailureFatal ==
    [][(/\ args.op = "sync" /\ ~args.dry
        /\ pc \in {"pre", "post"}
        /\ HasBadHook(StepHooks)) =>
          /\ pc' = "done" /\ queue' = <<>>
          /\ fs' = fs
          /\ hist'[Len(hist')].res = "err"
          /\ hist'[Len(hist')].log = log'
          /\ StepEvs[Len(StepEvs)] =
                Ev("error", <<StepHooks[FirstBad(StepHooks)]>>, <<Head(queue).name>>)
          /\ SelectSeq(StepEvs, IsHookRun) =
                HookEvents(pc \o "_run", SubSeq(StepHooks, 1, FirstBad(StepHooks) - 1),
                           Head(queue).name)
          /\ Len(StepEvs) = 2 * FirstBad(StepHooks)]_vars

\* Entry b's pre_hooks are true, nosuch, true: true was executed, nosuch
\* failed, and the run ended with an error before anything was linked.
C17_Witness ==
    /\ args.op = "sync" /\ ~args.dry /\ args.name = None
    /\ pc = "done" /\ Len(hist) = 1 /\ hist[1].res = "err"
    /\ Logged(log, Ev("pre_run", <<"true">>, <<"b">>))
    /\ log[Len(log)] = Ev("error", <<"nosuch">>, <<"b">>)
    /\ ~Exists(fs, <<"h", "p", "b">>)


IsLinkEvent(ev) ==
    ev.e \in {"linked", "removing", "broken", "uptodate", "conflict", "enter", "overflow"}
IsTemplateEvent(ev) == ev.e \in {"generated", "context"}

\* C18: link never builds the context, never writes a file and never logs
\* or executes a hook or renders a template; generate never creates or
\* removes a link, never enters the symlink engine and never logs or
\* executes a hook; only sync has hook steps. In every operation the symlink
\* step of an entry without a target and the template step of an entry
\* without a template do nothing and succeed.
C18_OperationScope ==
    [][/\ args.op = "link" =>
            /\ pc' \notin {"pre", "gen", "post"}
            /\ builds' = 0 /\ context' = EmptyMap
            /\ \A i \in DOMAIN ops' : ops'[i].op # "write"
            /\ \A i \in DOMAIN log' : ~IsHookEvent(log'[i]) /\ ~IsTemplateEvent(log'[i])
       /\ args.op = "generate" =>
            /\ pc' \notin {"pre", "link", "post"}
            /\ \A i \in DOMAIN ops' : ops'[i].op \notin {"symlink", "remove"}
            /\ \A i \in DOMAIN log' : ~IsHookEvent(log'[i]) /\ ~IsLinkEvent(log'[i])
       /\ (pc = "link" /\ HeadEntry.target = None) =>
            /\ StepOk /\ fs' = fs /\ StepOps = <<>> /\ StepEvs = <<>>
       /\ (pc = "gen" /\ HeadEntry.template = None) =>
            /\ StepOk /\ fs' = fs /\ StepOps = <<>> /\ StepEvs = <<>>
            /\ builds' = builds /\ context' = context]_vars

\* A link run over a manifest whose entries have hooks and templates, and
\* one of which has no target, has ended well: it linked ~/a and ~/p/b and
\* nothing exists at ~/q/c.
C18_Witness ==
    /\ args.op = "link" /\ ~args.dry /\ args.name = None
    /\ manifest \in ManifestsTwo
    /\ manifest.entries["a"][1].template # None
    /\ pc = "done" /\ Len(hist) = 1 /\ hist[1].res = "ok"
    /\ IsSymlink(fs, HA) /\ IsSymlink(fs, <<"h", "p", "b">>)
    /\ <<"h", "q">> \notin DOMAIN fs
    /\ builds = 0


\* The template step at hand: the template's text and what compiling and
\* rendering it with the context of the step gives
HeadTemplate == Canonicalize(fs, HeadEntry.template)
HeadRendered == Render(fs[HeadTemplate].c, context')
\* generate_template is called by the step: the entry has a template that
\* can be read, and the context is there
TemplateStep ==
    /\ pc = "gen"
    /\ HeadEntry.template # None
    /\ KindAt(fs, HeadTemplate) = "file"
    /\ ~Logged(StepEvs, ContextError)
\* dest is absent (and its parents can be made) or holds a regular file
Writable(f, dest) == Fresh(f, dest) \/ KindAt(f, Canonicalize(f, dest)) = "file"

\* C19: in a template step that is not dry, when the template compiles and
\* renders and the destination is absent or holds a regular file, the step
\* succeeds, every parent of the destination is a directory afterwards, the
\* destination reads as exactly the rendered text, the operations are the
\* creation of missing parents and then one write, and nothing else has
\* changed; when the template does not compile or render, the step fails
\* and nothing is created or written.
C19_TemplateWriteBack ==
    [][(TemplateStep /\ ~args.dry) =>
          /\ (HeadRendered.ok /\ Writable(fs, HeadDest)) =>
                /\ StepOk
                /\ ReadToString(fs', HeadDest) = [ok |-> TRUE, c |-> HeadRendered.text]
                /\ \A i \in 0..(Len(HeadDest) - 1) : IsDir(fs', SubSeq(HeadDest, 1, i))
                /\ StepOps # <<>>
                /\ StepOps[Len(StepOps)] = Op("write", Canonicalize(fs', HeadDest))
                /\ \A i \in 1..(Len(StepOps) - 1) :
                      StepOps[i].op = "mkdir" /\ IsPrefix(StepOps[i].p, RealDest(fs', HeadDest))
                /\ \A q \in DOMAIN fs :
                      q # Canonicalize(fs', HeadDest) => (q \in DOMAIN fs' /\ fs'[q] = fs[q])
          /\ ~HeadRendered.ok =>
                /\ ~StepOk
                /\ fs' = fs
                /\ StepOps = <<>>]_vars

\* generate a has overwritten the foreign file at ~/a with the rendered
\* text and has written ~/q/c, creating ~/q on the way.
C19_Witness ==
    /\ args.op = "generate" /\ ~args.dry
    /\ Holds(start, HA, FileNode("X"))
    /\ <<"h", "q">> \notin DOMAIN start
    /\ Holds(fs, HA, FileNode("dark"))
    /\ Holds(fs, <<"h", "q">>, DirNode)
    /\ Holds(fs, <<"h", "q", "c">>, FileNode("dark"))


\* the log holds a fatal error: no manifest, entry not found, or the error of
\* the context builder, of a symlink, template or hook step
Fatal(l) == \E i \in DOMAIN l : l[i].e \in {"error", "notfound", "nomanifest", "overflow"}
Ended == pc' = "done" /\ Len(hist') = Len(hist) + 1

\* C20: a run ends with exit status 0 (res "ok") exactly when its log holds
\* no fatal error, which is exactly when it ends after the loop over the
\* selected entries, none left to process; otherwise the status is 1 (res
\* "err"). Warnings about skipped conflicts do not change the status.
C20_ExitCodes ==
    [][Ended =>
          /\ hist'[Len(hist')].res \in {"ok", "err"}
          /\ hist'[Len(hist')].log = log'
          /\ hist'[Len(hist')].res = "ok" <=> ~Fatal(log')
          /\ hist'[Len(hist')].res = "ok" <=> (pc = "exit" /\ queue = <<>>)
          /\ ~manifest.loaded => hist'[Len(hist')].res = "err"]_vars

\* A run that met a conflict at ~/a, which it skipped, has ended with exit
\* status 0.
C20_Witness ==
    /\ pc = "done" /\ Len(hist) = 1
    /\ hist[1].res = "ok"
    /\ \E i \in DOMAIN hist[1].log : hist[1].log[i].e = "conflict" /\ hist[1].log[i].p = HA
    /\ Logged(hist[1].log, Ev("linked", <<"h", "p", "b">>, SrcF))



\* The paths the run hands to resolve_home_dir: the wallpaper and every
\* entry's target, dest and template
EntryPaths(e) == {e.target, e.dest, e.template}
ResolvedPaths ==
    ({manifest.wallpaper}
     \cup UNION { UNION { EntryPaths(manifest.entries[n][i]) :
                          i \in 1..Len(manifest.entries[n]) } :
                  n \in DOMAIN manifest.entries }) \ {None}
StartsWithTilde(p) == p # <<>> /\ Head(p) = "~"

\* C21 (as claimed): resolve_home_dir fails exactly when the path begins
\* with ~ and HOME is unset; when it succeeds it gives HOME followed by the
\* rest of the path for a path that begins with ~, and the path itself for
\* every other path, which therefore resolves also when HOME is unset.
C21_HomeExpansion ==
    \A p \in ResolvedPaths :
       /\ ResolveHomeDir(home, p).ok <=> ~(StartsWithTilde(p) /\ home = None)
       /\ ResolveHomeDir(home, p).ok =>
             ResolveHomeDir(home, p).p = IF StartsWithTilde(p) THEN home \o Tail(p) ELSE p



\* The real paths inside the source target tree of an entry: the canonical
\* target and everything under it
TargetTrees(f) ==
    UNION { UNION { IF manifest.entries[n][i].target = None
                       \/ Canonicalize(f, manifest.entries[n][i].target) = NoPath
                    THEN {}
                    ELSE {q \in DOMAIN f :
                            IsPrefix(Canonicalize(f, manifest.entries[n][i].target), q)} :
                    i \in 1..Len(manifest.entries[n]) } :
            n \in DOMAIN manifest.entries }
IsRemovalOrWrite(o) == o.op \in {"remove", "write"}

\* C22 (as claimed): no step of a sync, link or generate run, whatever force
\* is and whatever the destinations hold, removes, replaces or rewrites a
\* file, directory or link inside the source target tree of an entry, and no
\* removal and no write of the step is at a path inside such a tree.
C22_SourceReadOnly ==
    [][(manifest.loaded /\ pc \in {"pre", "link", "gen", "post"}) =>
          /\ \A q \in TargetTrees(fs) : Holds(fs', q, fs[q])
          /\ \A i \in DOMAIN StepOps :
                IsRemovalOrWrite(StepOps[i]) => StepOps[i].p \notin TargetTrees(fs)]_vars



\* a step of the program (and no change made by the user between two runs)
ProgramStep == pc \notin {"idle", "done"} \/ Len(hist') # Len(hist)

\* C23: with dry=true every step of a sync, link or generate run leaves the
\* file system as it is and makes no file-system operation (no directory
\* created, nothing removed, no symlink created, no template output
\* written), whatever the destinations hold and whatever force is; no hook
\* is executed; and the file system recorded at the end of the run equals
\* the one at its beginning.
C23_DryRunChangesNothing ==
    [][(args.dry /\ ProgramStep) =>
          /\ fs' = fs
          /\ ops' = <<>>
          /\ \A i \in DOMAIN log' : ~IsHookRun(log'[i])
          /\ Ended =>
                /\ hist'[Len(hist')].ops = <<>>
                /\ hist'[Len(hist')].fs1 = hist'[Len(hist')].fs0
                /\ hist'[Len(hist')].fs1 = fs]_vars

\* A dry sync with force has ended well: it announced the removal of the
\* foreign file at ~/a and the links, logged entry b's hooks and the
\* rendered template, and the file is still there and ~/p was not created.
C23_Witness ==
    /\ args.dry /\ args.force /\ args.op = "sync"
    /\ pc = "done" /\ Len(hist) = 1 /\ hist[1].res = "ok"
    /\ Logged(log, Ev("removing", HA, None))
    /\ Logged(log, Ev("linked", <<"h", "p", "b">>, SrcF))
    /\ Logged(log, Ev("pre_log", <<"true">>, <<"b">>))
    /\ HasEvent(log, "generated")
    /\ Holds(fs, HA, FileNode("X"))
    /\ <<"h", "p">> \notin DOMAIN fs



\* the run at hand, or one that ended with log l and operations o, executed
\* no hook and changed nothing in the file system
NoSideEffect(l, o) == o = <<>> /\ \A i \in DOMAIN l : ~IsHookRun(l[i])

\* C24 (as claimed): when options.wallpaper is unset and a selected entry
\* declares a template, a sync (with a NAME or without) executes no hook and
\* creates or removes no link or directory at any moment, and every run ends
\* with the missing-wallpaper error, the file system as it was.
C24_SyncMissingWallpaper ==
    (/\ manifest.loaded /\ args.op = "sync"
     /\ manifest.wallpaper = None
     /\ SelectedTemplate)
    => /\ NoSideEffect(log, ops)
       /\ \A i \in DOMAIN hist :
             /\ hist[i].res = "err"
             /\ Logged(hist[i].log, ContextError)
             /\ NoSideEffect(hist[i].log, hist[i].ops)
             /\ hist[i].fs1 = hist[i].fs0



\* C25: in a hook step (sync, not dry) all of whose hooks can be launched,
\* whatever their exit statuses, the step succeeds and changes nothing in
\* the file system; each hook is logged, then executed and its output
\* forwarded, one after the other in list order; and the run goes on with
\* the entry's next step after the pre_hooks, and with the next entry (or
\* the end of the run, none being left) after the post_hooks.
C25_HookStatusIgnored ==
    [][(/\ args.op = "sync" /\ ~args.dry
        /\ pc \in {"pre", "post"}
        /\ ~HasBadHook(StepHooks)) =>
          /\ StepOk
          /\ fs' = fs /\ StepOps = <<>>
          /\ Len(hist') = Len(hist)
          /\ Len(StepEvs) = 2 * Len(StepHooks)
          /\ \A i \in DOMAIN StepHooks :
                /\ StepEvs[2 * i - 1] = Ev(pc \o "_log", <<StepHooks[i]>>, <<Head(queue).name>>)
                /\ StepEvs[2 * i] = Ev(pc \o "_run", <<StepHooks[i]>>, <<Head(queue).name>>)
          /\ pc = "pre" => (pc' = "link" /\ queue' = queue)
          /\ pc = "post" =>
                /\ queue' = Tail(queue)
                /\ pc' = IF Tail(queue) = <<>> THEN "exit" ELSE "pre"]_vars

\* A sync has ended with exit status 0 although entry b's hooks false, before
\* and after its link, exited with status 1: ~/p/b was linked after the
\* pre_hook, and entry a, which came later, was linked after the post_hook.
C25_Witness ==
    /\ args.op = "sync" /\ ~args.dry /\ args.name = None
    /\ ExitStatus("false") # 0
    /\ pc = "done" /\ Len(hist) = 1 /\ hist[1].res = "ok"
    /\ \E i, j, k, l \in DOMAIN log :
          /\ i < j /\ j < k /\ k < l
          /\ log[i] = Ev("pre_run", <<"false">>, <<"b">>)
          /\ log[j] = Ev("linked", <<"h", "p", "b">>, SrcF)
          /\ log[k] = Ev("post_run", <<"false">>, <<"b">>)
          /\ log[l].e = "linked" /\ log[l].p = HA

====
